---- MODULE Spec2Model ----
(***************************************************************************)
(* Model of cofgate.py: a linear pipeline                                  *)
(*   parse_args -> get_added_lines_from_git_diff -> extract_domain_pairs   *)
(*   -> check_registry_configs -> print_results -> exit status.            *)
(* Text is modelled character by character: a string is a sequence of      *)
(* one-character strings.  The filesystem is a set of regular files, each  *)
(* an absolute location given as its sequence of path segments.            *)
(***************************************************************************)
EXTENDS Integers, Sequences, FiniteSets, TLC

VARIABLES
    pc,             \* position of main(): which stage runs next
    repo_path,      \* args.repo_path
    registry_path,  \* args.registry_path
    lob,            \* args.lob
    files,          \* the filesystem: the regular files that exist
    diff_rc,        \* exit status of the git subprocess ("none" before it ran)
    diff_entries,   \* the diff git produced, as (kind, text) records
    diff_stdout,    \* result.stdout.splitlines(): the same diff as text lines
    added_lines,    \* main's added_lines
    domain_pairs,   \* main's domain_pairs (a Python set)
    order,          \* the order in which the set domain_pairs is iterated
    results,        \* main's results (a list of report dicts)
    out,            \* what print_results printed, one record per report
    all_ok,         \* main's all_ok
    diag,           \* the diagnostic / closing message printed
    stages,         \* the stages executed so far, in order
    exit_code       \* status passed to sys.exit ("none" while running)

vars == <<pc, repo_path, registry_path, lob, files, diff_rc, diff_entries,
          diff_stdout, added_lines, domain_pairs, order, results, out, all_ok,
          diag, stages, exit_code>>

----------------------------------------------------------------------------
(* Strings                                                                 *)

Range(s) == {s[i] : i \in 1..Len(s)}

SEP == "/"

\* The characters that occur in the model, in code-point order; Ord is
\* order-isomorphic to Python's ord() on them.
Alphabet ==
    <<"\t", " ", "\"", "'", "(", ")", "+", ",", "-", ".", "/", "@", "A", "B", "D",
      "N", "T", "a", "b", "d", "e", "f", "g", "i", "l", "m", "n", "o", "p",
      "r", "s", "t", "u", "w", "x", "y">>

Ord(c) == CHOOSE i \in 1..Len(Alphabet) : Alphabet[i] = c

\* Python's s1 < s2 on str
RECURSIVE StrLess(_, _)
StrLess(s1, s2) ==
    IF s2 = <<>> THEN FALSE
    ELSE IF s1 = <<>> THEN TRUE
    ELSE IF Head(s1) = Head(s2) THEN StrLess(Tail(s1), Tail(s2))
    ELSE Ord(Head(s1)) < Ord(Head(s2))

\* str.startswith
startswith(s, prefix) ==
    /\ Len(prefix) <= Len(s)
    /\ SubSeq(s, 1, Len(prefix)) = prefix

\* str.endswith
endswith(s, suffix) ==
    /\ Len(suffix) <= Len(s)
    /\ SubSeq(s, Len(s) - Len(suffix) + 1, Len(s)) = suffix

\* s.split("/")
RECURSIVE split(_)
split(s) ==
    IF \A i \in 1..Len(s) : s[i] # SEP THEN <<s>>
    ELSE LET k == CHOOSE i \in 1..Len(s) :
                      s[i] = SEP /\ \A j \in 1..(i - 1) : s[j] # SEP
         IN <<SubSeq(s, 1, k - 1)>> \o split(SubSeq(s, k + 1, Len(s)))

\* posixpath.join(path, b) for one further component
join2(path, b) ==
    IF startswith(b, <<SEP>>) THEN b
    ELSE IF path = <<>> \/ endswith(path, <<SEP>>) THEN path \o b
    ELSE path \o <<SEP>> \o b

\* os.path.join(a, *p)
RECURSIVE join(_, _)
join(a, p) == IF p = <<>> THEN a ELSE join(join2(a, Head(p)), Tail(p))

----------------------------------------------------------------------------
(* Filesystem                                                              *)

DOT == <<".">>
DOTDOT == <<".", ".">>

\* Directories that exist whatever the registry holds: the root, the
\* working directory, a git working copy /s, a plain directory /p and the
\* registry root /r.
FixedDirs ==
    { <<>>, << <<"w">> >>, << <<"s">> >>, << <<"s">>, <<".", "g", "i", "t">> >>,
      << <<"p">> >>, << <<"r">> >> }

Cwd == << <<"w">> >>

\* Every ancestor of a file is a directory.
Dirs(F) ==
    FixedDirs \cup UNION {{SubSeq(f, 1, k) : k \in 0..(Len(f) - 1)} : f \in F}

NoEnt == << <<"ENOENT">> >>

\* The kernel's path walk: each step needs the directory walked from to
\* exist; "" and "." stay, ".." goes to the parent (the root's is the root).
RECURSIVE walk(_, _, _)
walk(F, cur, comps) ==
    IF comps = <<>> THEN cur
    ELSE LET c == Head(comps) IN
         IF c = <<>> THEN walk(F, cur, Tail(comps))
         ELSE IF cur \notin Dirs(F) THEN NoEnt
         ELSE IF c = DOT THEN walk(F, cur, Tail(comps))
         ELSE IF c = DOTDOT
              THEN walk(F, IF cur = <<>> THEN cur ELSE SubSeq(cur, 1, Len(cur) - 1),
                        Tail(comps))
         ELSE walk(F, Append(cur, c), Tail(comps))

resolve(F, path) ==
    walk(F, IF startswith(path, <<SEP>>) THEN <<>> ELSE Cwd, split(path))

\* os.path.isfile / os.path.isdir
isfile(F, path) == resolve(F, path) \in F
isdir(F, path) == resolve(F, path) \in Dirs(F)

----------------------------------------------------------------------------
(* parse_args                                                              *)

DOTGIT == <<".", "g", "i", "t">>

\* parse_args without the check for the .git directory
parse_args_no_git(F, repo, registry) ==
    IF ~isdir(F, repo) THEN "ERROR: Source repo path does not exist"
    ELSE IF ~isdir(F, registry) THEN "ERROR: Registry path does not exist"
    ELSE "ok"

\* The validation at the end of parse_args: "ok", or the diagnostic printed
\* before sys.exit(1).
parse_args(F, repo, registry) ==
    IF ~isdir(F, repo) THEN "ERROR: Source repo path does not exist"
    ELSE IF ~isdir(F, join(repo, <<DOTGIT>>))
         THEN "ERROR: Source repo path is not a git repository"
    ELSE IF ~isdir(F, registry) THEN "ERROR: Registry path does not exist"
    ELSE "ok"

----------------------------------------------------------------------------
(* get_added_lines_from_git_diff                                           *)

PLUS == <<"+">>
PLUS3 == <<"+", "+", "+">>

\* One line of git's unified diff output for an entry of the diff: header
\* lines are printed as they are, hunk lines behind their marker.
RenderLine(e) ==
    CASE e.kind = "add" -> <<"+">> \o e.text
      [] e.kind = "del" -> <<"-">> \o e.text
      [] e.kind = "ctx" -> <<" ">> \o e.text
      [] OTHER -> e.text

Render(d) == [i \in 1..Len(d) |-> RenderLine(d[i])]

\* The loop over result.stdout.splitlines()
get_added_lines_from_git_diff(stdout) ==
    LET keep(line) == startswith(line, PLUS) /\ ~startswith(line, PLUS3)
        kept == SelectSeq(stdout, keep)
    IN [i \in 1..Len(kept) |-> Tail(kept[i])]

----------------------------------------------------------------------------
(* extract_domain_pairs                                                    *)

KW == <<"f", "i", "n", "d", "B", "y", "D", "o", "m", "a", "i", "n", "N", "a",
        "m", "e", "A", "n", "d", "T", "y", "p", "e">>

DQ == "\""
SQ == "'"
Quotes == {DQ, SQ}
Whitespace == {" ", "\t"}

\* \s* from position i: the first position at or after i that holds no
\* whitespace (Len(s) + 1 at the end of the line)
RECURSIVE skip_ws(_, _)
skip_ws(s, i) ==
    IF i <= Len(s) /\ s[i] \in Whitespace THEN skip_ws(s, i + 1) ELSE i

\* [^"']+ from position i, greedy: the first position at or after i that
\* holds a quote (Len(s) + 1 at the end of the line)
RECURSIVE skip_body(_, _)
skip_body(s, i) ==
    IF i <= Len(s) /\ s[i] \notin Quotes THEN skip_body(s, i + 1) ELSE i

Has(s, i, c) == i <= Len(s) /\ s[i] = c
HasQuote(s, i) == i <= Len(s) /\ s[i] \in Quotes

NoMatch == [ok |-> FALSE, end |-> 0, groups |-> <<>>]

\* pattern.match(s, i): the pattern
\*   findByDomainNameAndType\s*\(\s*["']([^"']+)["']\s*,\s*["']([^"']+)["']\s*\)
\* anchored at position i.  No element of the pattern can match where the
\* element before it could have stopped earlier, so the match is unique.
match_at(s, i) ==
    IF ~(i + Len(KW) - 1 <= Len(s) /\ SubSeq(s, i, i + Len(KW) - 1) = KW)
    THEN NoMatch
    ELSE
    LET p1 == skip_ws(s, i + Len(KW)) IN
    IF ~Has(s, p1, "(") THEN NoMatch ELSE
    LET q1 == skip_ws(s, p1 + 1) IN
    IF ~HasQuote(s, q1) THEN NoMatch ELSE
    LET e1 == skip_body(s, q1 + 1) IN
    IF e1 = q1 + 1 \/ ~HasQuote(s, e1) THEN NoMatch ELSE
    LET c == skip_ws(s, e1 + 1) IN
    IF ~Has(s, c, ",") THEN NoMatch ELSE
    LET q2 == skip_ws(s, c + 1) IN
    IF ~HasQuote(s, q2) THEN NoMatch ELSE
    LET e2 == skip_body(s, q2 + 1) IN
    IF e2 = q2 + 1 \/ ~HasQuote(s, e2) THEN NoMatch ELSE
    LET p2 == skip_ws(s, e2 + 1) IN
    IF ~Has(s, p2, ")") THEN NoMatch ELSE
    [ok |-> TRUE, end |-> p2 + 1,
     groups |-> <<SubSeq(s, q1 + 1, e1 - 1), SubSeq(s, q2 + 1, e2 - 1)>>]

\* pattern.finditer(line): the non-overlapping matches, left to right
RECURSIVE finditer_from(_, _)
finditer_from(s, i) ==
    IF i > Len(s) THEN <<>>
    ELSE LET m == match_at(s, i) IN
         IF m.ok THEN <<m.groups>> \o finditer_from(s, m.end)
         ELSE finditer_from(s, i + 1)

finditer(line) == finditer_from(line, 1)

\* every match of every line, in order, duplicates included
RECURSIVE all_matches(_)
all_matches(lines) ==
    IF lines = <<>> THEN <<>>
    ELSE finditer(Head(lines)) \o all_matches(Tail(lines))

\* extract_domain_pairs keeping one pair per domain name
extract_domain_pairs_by_name(lines) ==
    LET found == Range(all_matches(lines))
    IN {CHOOSE pair \in found : pair[1] = name : name \in {pair[1] : pair \in found}}

\* results = set(); results.add((domain_name, domain_type)) per match
extract_domain_pairs(lines) == Range(all_matches(lines))

----------------------------------------------------------------------------
(* check_env_files, check_registry_configs                                 *)

ENVIRONMENTS == << <<"u", "a", "t">>, <<"d", "e", "m", "o">>, <<"p", "r", "o", "d">> >>

TXT == <<".", "t", "x", "t">>
DEFAULT == <<"d", "e", "f", "a", "u", "l", "t">>

\* results[env] = (os.path.isfile(file_path), file_path)
check_env_files(F, base_path, domain_name, domain_type) ==
    [env \in Range(ENVIRONMENTS) |->
        LET file_path == join(base_path, <<domain_name, domain_type, env \o TXT>>)
        IN [exists |-> isfile(F, file_path), path |-> file_path]]

\* One report dict per element of domain_pairs; iter is the order in which
\* the for loop receives the elements of the set.
check_registry_configs(F, registry, l, iter) ==
    LET lob_base_path == join(registry, <<l>>)
        default_base_path == join(registry, <<DEFAULT>>)
    IN [i \in 1..Len(iter) |->
          [domain_name |-> iter[i][1],
           domain_type |-> iter[i][2],
           label |-> iter[i][1] \o <<SEP>> \o iter[i][2],
           lob |-> check_env_files(F, lob_base_path, iter[i][1], iter[i][2]),
           default |-> check_env_files(F, default_base_path, iter[i][1], iter[i][2])]]

----------------------------------------------------------------------------
(* print_results                                                           *)

\* sorted(results, key=lambda x: x["label"]): a stable sort, so reports
\* with equal labels keep the order they have in results.
RECURSIVE sorted_by_label(_)
sorted_by_label(rs) ==
    IF rs = <<>> THEN <<>>
    ELSE LET s == sorted_by_label(SubSeq(rs, 1, Len(rs) - 1))
             x == rs[Len(rs)]
             k == Cardinality({j \in 1..Len(s) : ~StrLess(x.label, s[j].label)})
         IN SubSeq(s, 1, k) \o <<x>> \o SubSeq(s, k + 1, Len(s))

\* What is printed for one report: the label, one status line per
\* environment for the LOB path (followed by the Expected line when the
\* file is missing), one status line per environment for the default path,
\* and the closing line about the default configs.
print_item(item) ==
    [label |-> item.label,
     lob_lines |->
        [i \in 1..Len(ENVIRONMENTS) |->
            LET r == item.lob[ENVIRONMENTS[i]] IN
            [env |-> ENVIRONMENTS[i],
             status |-> IF r.exists THEN "OK" ELSE "MISSING",
             expected |-> IF r.exists THEN <<>> ELSE r.path]],
     default_lines |->
        [i \in 1..Len(ENVIRONMENTS) |->
            [env |-> ENVIRONMENTS[i],
             status |-> IF item.default[ENVIRONMENTS[i]].exists
                        THEN "OK" ELSE "MISSING"]],
     default_all_present |->
        \A i \in 1..Len(ENVIRONMENTS) : item.default[ENVIRONMENTS[i]].exists]

\* item_ok with all_ok overwritten by each result instead of only cleared:
\* the last environment decides
item_ok_last(item) == item.lob[ENVIRONMENTS[Len(ENVIRONMENTS)]].exists

\* all_ok starts True and is cleared by every LOB result that does not exist
item_ok(item) == \A i \in 1..Len(ENVIRONMENTS) : item.lob[ENVIRONMENTS[i]].exists

\* str.upper on the letters of the model
LowerCase == <<"a", "d", "e", "f", "l", "t", "u", "x">>
UpperCase == <<"A", "D", "E", "F", "L", "T", "U", "X">>

upper(s) ==
    [i \in 1..Len(s) |->
        IF \E k \in 1..Len(LowerCase) : LowerCase[k] = s[i]
        THEN UpperCase[CHOOSE k \in 1..Len(LowerCase) : LowerCase[k] = s[i]]
        ELSE s[i]]

print_results(rs, l) ==
    LET s == sorted_by_label(rs)
    IN [printed |-> [i \in 1..Len(s) |-> [section |-> upper(l)] @@ print_item(s[i])],
        all_ok |-> \A i \in 1..Len(s) : item_ok(s[i])]

----------------------------------------------------------------------------
(* Inputs                                                                  *)

MaxHunk == 2       \* hunk lines of a diff in the pipeline
MaxDiffLines == 2  \* hunk lines of a diff given to the diff filter alone
MaxLines == 2      \* added lines given to the pattern matcher alone
MaxPairs == 2      \* domain pairs given to the checker and reporter alone

\* All sequences over S of length at most n
RECURSIVE SeqsUpTo(_, _)
SeqsUpTo(S, n) ==
    IF n = 0 THEN {<<>>}
    ELSE LET shorter == SeqsUpTo(S, n - 1)
         IN shorter \cup {Append(q, x) : q \in shorter, x \in S}

\* All orders in which the elements of the set S can be iterated
RECURSIVE Orders(_)
Orders(S) ==
    IF S = {} THEN {<<>>}
    ELSE UNION {{<<x>> \o q : q \in Orders(S \ {x})} : x \in S}

\* Command-line values
SRC_REPO == <<"/", "s">>      \* a directory with a .git directory
PLAIN_DIR == <<"/", "p">>     \* a directory without one
NOWHERE == <<"/", "n">>       \* no such directory
REGISTRY == <<"/", "r">>
LOB_X == <<"x">>

RepoPaths == {SRC_REPO, PLAIN_DIR, NOWHERE}
RegistryPaths == {REGISTRY, NOWHERE}
Lobs == {LOB_X, DEFAULT}

\* Names that occur as string literals in the scanned code
NAME_A == <<"a">>
NAME_A_SLASH == <<"a", "/">>
NAME_UP == <<".", ".", "/", "d", "e", "f", "a", "u", "l", "t", "/", "a">>
TYPE_T == <<"t">>
TYPE_ABS == <<"/", "t">>
TYPE_U == <<"u">>

PAIR_PLAIN == <<NAME_A, TYPE_T>>
PAIR_ABS == <<NAME_A, TYPE_ABS>>
PAIR_SLASH == <<NAME_A_SLASH, TYPE_T>>
PAIR_UP == <<NAME_UP, TYPE_T>>

\* The registry: any subset of the environment files of a/t under the LOB x
\* and under default
CandFiles ==
    { << <<"r">>, b, <<"a">>, <<"t">>, e \o TXT >> :
        b \in {LOB_X, DEFAULT}, e \in Range(ENVIRONMENTS) }

FileSystems == SUBSET CandFiles

\* The text of a lookup call with the given keyword, quote characters,
\* literals and whitespace
Call(kw, q1, name, q2, q3, type, q4, ws) ==
    kw \o ws \o <<"(">> \o ws \o <<q1>> \o name \o <<q2>> \o ws \o <<",">>
       \o ws \o <<q3>> \o type \o <<q4>> \o ws \o <<")">>

Plain(pair) == Call(KW, DQ, pair[1], DQ, DQ, pair[2], DQ, <<>>)

NOISE == <<"x">>

\* Diff header lines and hunk lines
DiffHeader ==
    << [kind |-> "diff", text |-> <<"d", "i", "f", "f", " ", "-", "-", "g", "i", "t">>],
       [kind |-> "old", text |-> <<"-", "-", "-", " ", "a", "/", "f">>],
       [kind |-> "new", text |-> <<"+", "+", "+", " ", "b", "/", "f">>],
       [kind |-> "hunk", text |-> <<"@", "@", " ", "@", "@">>] >>

DiffsOver(entries, n) ==
    {<<>>} \cup {DiffHeader \o h : h \in SeqsUpTo(entries, n) \ {<<>>}}

\* Diffs of the pipeline: added and removed lines with lookup calls
PipeEntries ==
    {[kind |-> "add", text |-> t] :
        t \in {Plain(PAIR_PLAIN), Plain(PAIR_ABS), Plain(PAIR_UP), NOISE}}
    \cup {[kind |-> "del", text |-> Plain(PAIR_PLAIN)]}

PipeDiffs == DiffsOver(PipeEntries, MaxHunk)

\* Diffs for the filter alone: every kind of hunk line with contents that
\* begin with the marker characters themselves
DiffTexts ==
    { <<>>, <<"x">>, <<"+", "y">>, <<"+", "+", "i">>, <<"-", "z">>, <<"-", "-", "j">> }

FilterEntries == [kind : {"add", "del", "ctx"}, text : DiffTexts]

FilterDiffs == DiffsOver(FilterEntries, MaxDiffLines)

\* Lines for the pattern matcher alone
KW_LOWER == <<"f", "i", "n", "d", "b", "y", "D", "o", "m", "a", "i", "n", "N", "a",
              "m", "e", "A", "n", "d", "T", "y", "p", "e">>
SPACE == <<" ">>

MatcherTexts ==
    { Call(KW, q, NAME_A, q, q, TYPE_T, q, w) : q \in Quotes, w \in {<<>>, SPACE} }
    \cup { Call(KW, q1, NAME_A, q2, q1, TYPE_T, q2, <<>>) : q1, q2 \in Quotes }
    \cup { Call(KW, DQ, n, DQ, DQ, t, DQ, <<>>) :
             n \in {NAME_A, <<"A">>, <<" ", "a">>}, t \in {TYPE_T, TYPE_U} }
    \cup { Plain(PAIR_PLAIN) \o SPACE \o Plain(PAIR_PLAIN),
           Plain(PAIR_PLAIN) \o Plain(<<NAME_A, TYPE_U>>),
           Call(KW_LOWER, DQ, NAME_A, DQ, DQ, TYPE_T, DQ, <<>>),
           Call(KW, DQ, <<>>, DQ, DQ, TYPE_T, DQ, <<>>),
           NOISE }

MatcherInputs == SeqsUpTo(MatcherTexts, MaxLines)

\* Pair sets for the checker and reporter alone
ReportPairs == {PAIR_PLAIN, PAIR_ABS, PAIR_SLASH, PAIR_UP}

ReportInputs == {S \in SUBSET ReportPairs : S # {} /\ Cardinality(S) <= MaxPairs}

----------------------------------------------------------------------------
(* main                                                                    *)

NOT_RUN == -1   \* no exit status yet

FailCodes == {1, 128}   \* non-zero exit statuses of git diff

Init ==
    /\ pc = "parse_args"
    /\ repo_path \in RepoPaths
    /\ registry_path \in RegistryPaths
    /\ lob \in Lobs
    /\ files \in FileSystems
    /\ diff_rc = NOT_RUN
    /\ diff_entries = <<>>
    /\ diff_stdout = <<>>
    /\ added_lines = <<>>
    /\ domain_pairs = {}
    /\ order = <<>>
    /\ results = <<>>
    /\ out = <<>>
    /\ all_ok = TRUE
    /\ diag = ""
    /\ stages = <<>>
    /\ exit_code = NOT_RUN

\* args = parse_args()
ParseArgs ==
    /\ pc = "parse_args"
    /\ stages' = Append(stages, "parse_args")
    /\ LET v == parse_args(files, repo_path, registry_path) IN
       IF v = "ok"
       THEN pc' = "git_diff" /\ UNCHANGED <<diag, exit_code>>
       ELSE pc' = "exit" /\ diag' = v /\ exit_code' = 1
    /\ UNCHANGED <<repo_path, registry_path, lob, files, diff_rc, diff_entries,
                   diff_stdout, added_lines, domain_pairs, order, results, out,
                   all_ok>>

\* get_added_lines_from_git_diff when git exits non-zero:
\* CalledProcessError, the message, sys.exit(1)
GitDiffFails ==
    /\ pc = "git_diff"
    /\ stages' = Append(stages, "git_diff")
    /\ \E rc \in FailCodes : diff_rc' = rc
    /\ diag' = "ERROR: Failed to run git diff"
    /\ exit_code' = 1
    /\ pc' = "exit"
    /\ UNCHANGED <<repo_path, registry_path, lob, files, diff_entries, diff_stdout,
                   added_lines, domain_pairs, order, results, out, all_ok>>

\* get_added_lines_from_git_diff when git exits 0 with one of the diffs D
GitDiffOk(D) ==
    /\ pc = "git_diff"
    /\ stages' = Append(stages, "git_diff")
    /\ \E d \in D :
        /\ diff_entries' = d
        /\ diff_stdout' = Render(d)
        /\ added_lines' = get_added_lines_from_git_diff(Render(d))
    /\ diff_rc' = 0
    /\ pc' = "extract"
    /\ UNCHANGED <<repo_path, registry_path, lob, files, domain_pairs, order,
                   results, out, all_ok, diag, exit_code>>

\* domain_pairs = extract_domain_pairs(added_lines), and the exit with
\* status 0 when the set is empty
ExtractDomainPairs ==
    /\ pc = "extract"
    /\ stages' = Append(stages, "extract")
    /\ domain_pairs' = extract_domain_pairs(added_lines)
    /\ IF domain_pairs' = {}
       THEN /\ diag' = "No findByDomainNameAndType calls detected in diff"
            /\ exit_code' = 0
            /\ pc' = "exit"
       ELSE /\ pc' = "check"
            /\ UNCHANGED <<diag, exit_code>>
    /\ UNCHANGED <<repo_path, registry_path, lob, files, diff_rc, diff_entries,
                   diff_stdout, added_lines, order, results, out, all_ok>>

\* results = check_registry_configs(...); the set is iterated in any order
CheckRegistryConfigs ==
    /\ pc = "check"
    /\ stages' = Append(stages, "check")
    /\ \E iter \in Orders(domain_pairs) :
        /\ order' = iter
        /\ results' = check_registry_configs(files, registry_path, lob, iter)
    /\ pc' = "print"
    /\ UNCHANGED <<repo_path, registry_path, lob, files, diff_rc, diff_entries,
                   diff_stdout, added_lines, domain_pairs, out, all_ok, diag,
                   exit_code>>

\* all_ok = print_results(results, args.lob)
PrintResults ==
    /\ pc = "print"
    /\ stages' = Append(stages, "print")
    /\ out' = print_results(results, lob).printed
    /\ all_ok' = print_results(results, lob).all_ok
    /\ pc' = "verdict"
    /\ UNCHANGED <<repo_path, registry_path, lob, files, diff_rc, diff_entries,
                   diff_stdout, added_lines, domain_pairs, order, results, diag,
                   exit_code>>

\* the closing message and sys.exit(0) or sys.exit(1)
Exit ==
    /\ pc = "verdict"
    /\ stages' = Append(stages, "exit")
    /\ IF all_ok
       THEN diag' = "All LOB config files exist!" /\ exit_code' = 0
       ELSE diag' = "Some LOB config files are missing!" /\ exit_code' = 1
    /\ pc' = "exit"
    /\ UNCHANGED <<repo_path, registry_path, lob, files, diff_rc, diff_entries,
                   diff_stdout, added_lines, domain_pairs, order, results, out,
                   all_ok>>

Next ==
    \/ ParseArgs
    \/ GitDiffFails
    \/ GitDiffOk(PipeDiffs)
    \/ ExtractDomainPairs
    \/ CheckRegistryConfigs
    \/ PrintResults
    \/ Exit

Spec == Init /\ [][Next]_vars

\* The diff filter alone, on every diff of FilterDiffs
InitFilter ==
    /\ pc = "git_diff"
    /\ repo_path = SRC_REPO
    /\ registry_path = REGISTRY
    /\ lob \in Lobs
    /\ files = {}
    /\ diff_rc = NOT_RUN
    /\ diff_entries = <<>>
    /\ diff_stdout = <<>>
    /\ added_lines = <<>>
    /\ domain_pairs = {}
    /\ order = <<>>
    /\ results = <<>>
    /\ out = <<>>
    /\ all_ok = TRUE
    /\ diag = ""
    /\ stages = <<"parse_args">>
    /\ exit_code = NOT_RUN

NextFilter == GitDiffOk(FilterDiffs)

SpecFilter == InitFilter /\ [][NextFilter]_vars

\* The pattern matcher and the checker alone, on every input of MatcherInputs
InitMatcher ==
    /\ pc = "extract"
    /\ repo_path = SRC_REPO
    /\ registry_path = REGISTRY
    /\ lob = LOB_X
    /\ files \in {{}, CandFiles}
    /\ diff_rc = 0
    /\ diff_entries = <<>>
    /\ diff_stdout = <<>>
    /\ added_lines \in MatcherInputs
    /\ domain_pairs = {}
    /\ order = <<>>
    /\ results = <<>>
    /\ out = <<>>
    /\ all_ok = TRUE
    /\ diag = ""
    /\ stages = <<"parse_args", "git_diff">>
    /\ exit_code = NOT_RUN

NextMatcher == ExtractDomainPairs \/ CheckRegistryConfigs

SpecMatcher == InitMatcher /\ [][NextMatcher]_vars

\* The checker and the reporter alone, on every pair set of ReportInputs
InitReport ==
    /\ pc = "check"
    /\ repo_path = SRC_REPO
    /\ registry_path = REGISTRY
    /\ lob \in Lobs
    /\ files \in FileSystems
    /\ diff_rc = 0
    /\ diff_entries = <<>>
    /\ diff_stdout = <<>>
    /\ added_lines = <<>>
    /\ domain_pairs \in ReportInputs
    /\ order = <<>>
    /\ results = <<>>
    /\ out = <<>>
    /\ all_ok = TRUE
    /\ diag = ""
    /\ stages = <<"parse_args", "git_diff", "extract">>
    /\ exit_code = NOT_RUN

NextReport == CheckRegistryConfigs \/ PrintResults \/ Exit

SpecReport == InitReport /\ [][NextReport]_vars

----------------------------------------------------------------------------
(* What the specification says, stated independently of the code           *)

\* The documented location of an environment file:
\* {registry}/{base}/{domainName}/{domainType}/{environment}.txt
Template(registry, base, pair, env) ==
    registry \o <<SEP>> \o base \o <<SEP>> \o pair[1] \o <<SEP>> \o pair[2]
             \o <<SEP>> \o env \o TXT

\* The location a path names, read lexically: empty and "." segments
\* dropped, ".." taken against the segments before it
RECURSIVE lexical(_, _)
lexical(cur, comps) ==
    IF comps = <<>> THEN cur
    ELSE LET c == Head(comps) IN
         IF c = <<>> \/ c = DOT THEN lexical(cur, Tail(comps))
         ELSE IF c = DOTDOT
              THEN lexical(IF cur = <<>> THEN cur ELSE SubSeq(cur, 1, Len(cur) - 1),
                           Tail(comps))
         ELSE lexical(Append(cur, c), Tail(comps))

Location(path) ==
    lexical(IF startswith(path, <<SEP>>) THEN <<>> ELSE Cwd, split(path))

Beneath(loc, dir) == Len(dir) < Len(loc) /\ SubSeq(loc, 1, Len(dir)) = dir

BaseDir(registry, base) == Location(registry \o <<SEP>> \o base)

\* The three validations hold of the command line
ValidArgs ==
    /\ isdir(files, repo_path)
    /\ isdir(files, repo_path \o <<SEP>> \o DOTGIT)
    /\ isdir(files, registry_path)

\* All three LOB-path environment files of the pair exist
LobFilesExist(F, pair) ==
    \A env \in Range(ENVIRONMENTS) :
        isfile(F, Template(registry_path, lob, pair, env))

PairOf(report) == <<report.domain_name, report.domain_type>>

Ran(stage) == stage \in Range(stages)

\* C1: the process exits with status 0 exactly when validation and the diff
\* succeed and every extracted pair (if any) has all three LOB-path
\* environment files; in every other case it exits with status 1.
C1_ExitStatus ==
    pc = "exit" =>
        /\ exit_code \in {0, 1}
        /\ exit_code = 0 <=>
              /\ ValidArgs
              /\ diff_rc = 0
              /\ \A pair \in domain_pairs : LobFilesExist(files, pair)

\* C2: the value print_results returns is true exactly when every LOB flag
\* of every report is true, whatever the order of the reports.
C2_AggregateIsConjunction ==
    Ran("print") =>
        /\ all_ok = (\A i \in 1..Len(results) : \A env \in Range(ENVIRONMENTS) :
                        results[i].lob[env].exists)
        /\ \A perm \in Orders(1..Len(results)) :
              print_results([i \in 1..Len(results) |-> results[perm[i]]], lob).all_ok
                 = all_ok

\* C2 witness: two reports, exactly one LOB file missing among the six,
\* and the aggregate is false.
C2_Witness ==
    /\ Ran("print")
    /\ Len(results) = 2
    /\ Cardinality({<<i, env>> \in (1..2) \X Range(ENVIRONMENTS) :
                       ~results[i].lob[env].exists}) = 1
    /\ all_ok = FALSE

\* The files that differ between two filesystems
Differ(F1, F2) == (F1 \ F2) \cup (F2 \ F1)

\* The verdict and exit status of the same run on filesystem F
VerdictOn(F) == print_results(check_registry_configs(F, registry_path, lob, order), lob).all_ok

\* C3: two runs with the same arguments and added lines whose filesystems
\* agree under {registry}/{lob} and differ only under {registry}/default
\* reach the same verdict and the same exit status.
C3_DefaultNeverFlips ==
    (pc = "exit" /\ Ran("print")) =>
        \A F2 \in FileSystems :
            ( /\ \A f \in Differ(files, F2) : Beneath(f, BaseDir(registry_path, DEFAULT))
              /\ \A f \in Differ(files, F2) : ~Beneath(f, BaseDir(registry_path, lob)) )
            => /\ VerdictOn(F2) = all_ok
               /\ (IF VerdictOn(F2) THEN 0 ELSE 1) = exit_code

\* C4: the reports are one per distinct (domainName, domainType) matched in
\* the added lines, however often and wherever the pair is matched.
C4_OneReportPerDistinctPair ==
    Ran("check") =>
        LET matched == Range(all_matches(added_lines)) IN
        /\ \A pair \in matched :
              Cardinality({i \in 1..Len(results) : PairOf(results[i]) = pair}) = 1
        /\ \A i \in 1..Len(results) : PairOf(results[i]) \in matched
        /\ Len(results) = Cardinality(matched)

\* C4 witness: some pair was matched more than once, two distinct pairs
\* were matched, and the checker has run.
C4_Witness ==
    /\ Ran("check")
    /\ Len(all_matches(added_lines)) > Cardinality(Range(all_matches(added_lines)))
    /\ Len(results) >= 2

\* C5: a failed validation ends the run in parse_args and a failed diff
\* ends it in the diff stage, each with its diagnostic and status 1, and no
\* later stage has run or left a result.
C5_FailFast ==
    /\ (pc # "parse_args" /\ ~ValidArgs) =>
          /\ pc = "exit" /\ exit_code = 1
          /\ diag = IF ~isdir(files, repo_path)
                    THEN "ERROR: Source repo path does not exist"
                    ELSE IF ~isdir(files, repo_path \o <<SEP>> \o DOTGIT)
                    THEN "ERROR: Source repo path is not a git repository"
                    ELSE "ERROR: Registry path does not exist"
          /\ stages = <<"parse_args">>
          /\ diff_rc = NOT_RUN
          /\ diff_stdout = <<>> /\ added_lines = <<>> /\ domain_pairs = {}
          /\ results = <<>> /\ out = <<>>
    /\ diff_rc \in FailCodes =>
          /\ pc = "exit" /\ exit_code = 1
          /\ diag = "ERROR: Failed to run git diff"
          /\ stages = <<"parse_args", "git_diff">>
          /\ added_lines = <<>> /\ domain_pairs = {}
          /\ results = <<>> /\ out = <<>>

\* C5 witness: the diff failed after a successful validation and the
\* process has exited.
C5_Witness ==
    /\ pc = "exit"
    /\ ValidArgs
    /\ diff_rc \in FailCodes

\* C6: for each pair the report shows, per environment, MISSING with the
\* expected LOB path exactly when that LOB-path file is absent and OK
\* without a path exactly when it is present; a pair with an absent file
\* makes the verdict failure.
C6_MissingIdentified ==
    (pc = "exit" /\ Ran("print")) =>
        \A pair \in domain_pairs :
            /\ ~LobFilesExist(files, pair) => ~all_ok
            /\ \E i \in 1..Len(out) :
                /\ out[i].label = pair[1] \o <<SEP>> \o pair[2]
                /\ \A k \in 1..Len(ENVIRONMENTS) :
                    LET want == Template(registry_path, lob, pair, ENVIRONMENTS[k])
                        line == out[i].lob_lines[k]
                    IN IF isfile(files, want)
                       THEN line.status = "OK" /\ line.expected = <<>>
                       ELSE /\ line.status = "MISSING"
                            /\ Location(line.expected) = Location(want)

\* C7: every report holds six probe results, three under {registry}/{lob}
\* and three under {registry}/default, each at
\* {base}/{domainName}/{domainType}/{environment}.txt beneath its base,
\* with the flag telling whether that file exists.
C7_ProbedPaths ==
    \A i \in 1..Len(results) :
        /\ DOMAIN results[i].lob = Range(ENVIRONMENTS)
        /\ DOMAIN results[i].default = Range(ENVIRONMENTS)
        /\ \A env \in Range(ENVIRONMENTS) :
            /\ Location(results[i].lob[env].path)
                  = Location(Template(registry_path, lob, PairOf(results[i]), env))
            /\ Beneath(Location(results[i].lob[env].path), BaseDir(registry_path, lob))
            /\ Location(results[i].default[env].path)
                  = Location(Template(registry_path, DEFAULT, PairOf(results[i]), env))
            /\ Beneath(Location(results[i].default[env].path),
                       BaseDir(registry_path, DEFAULT))
            /\ results[i].lob[env].exists = isfile(files, results[i].lob[env].path)
            /\ results[i].default[env].exists
                  = isfile(files, results[i].default[env].path)

\* The texts of the added lines of a diff, in diff order
AddedTexts(d) ==
    LET isAdd(e) == e.kind = "add"
        adds == SelectSeq(d, isAdd)
    IN [i \in 1..Len(adds) |-> adds[i].text]

\* C8: the lines returned are exactly the added lines of the diff, in diff
\* order, each without its leading marker, whatever the line begins with.
C8_AddedLinesExact ==
    (Ran("git_diff") /\ diff_rc = 0) => added_lines = AddedTexts(diff_entries)

\* A quoted literal opened at position q: the position of its closing
\* quote, which must be the character that opened it (0 when there is none)
ClosedLiteral(s, q) ==
    LET e == skip_body(s, q + 1)
    IN IF HasQuote(s, q) /\ e > q + 1 /\ Has(s, e, s[q]) THEN e ELSE 0

\* A call of the claimed form starts at position i
ClaimedCall(s, i) ==
    IF ~(i + Len(KW) - 1 <= Len(s) /\ SubSeq(s, i, i + Len(KW) - 1) = KW)
    THEN NoMatch
    ELSE
    LET p1 == skip_ws(s, i + Len(KW)) IN
    IF ~Has(s, p1, "(") THEN NoMatch ELSE
    LET q1 == skip_ws(s, p1 + 1)
        e1 == ClosedLiteral(s, q1) IN
    IF e1 = 0 THEN NoMatch ELSE
    LET c == skip_ws(s, e1 + 1) IN
    IF ~Has(s, c, ",") THEN NoMatch ELSE
    LET q2 == skip_ws(s, c + 1)
        e2 == ClosedLiteral(s, q2) IN
    IF e2 = 0 THEN NoMatch ELSE
    LET p2 == skip_ws(s, e2 + 1) IN
    IF ~Has(s, p2, ")") THEN NoMatch ELSE
    [ok |-> TRUE, end |-> p2 + 1,
     groups |-> <<SubSeq(s, q1 + 1, e1 - 1), SubSeq(s, q2 + 1, e2 - 1)>>]

ClaimedPairsOf(line) ==
    { ClaimedCall(line, i).groups : i \in {j \in 1..Len(line) : ClaimedCall(line, j).ok} }

ClaimedPairs(lines) == UNION {ClaimedPairsOf(lines[n]) : n \in 1..Len(lines)}

\* C9: the pairs returned are exactly those of the calls in the added lines
\* whose two arguments are literals closed by the quote that opened them.
C9_PairsAreTheCalls ==
    Ran("extract") => domain_pairs = ClaimedPairs(added_lines)

\* C10: the printed sequence of reports is the same for every order in
\* which the set of pairs can be iterated.
C10_PrintOrderDeterministic ==
    Ran("print") =>
        \A iter \in Orders(domain_pairs) :
            print_results(check_registry_configs(files, registry_path, lob, iter), lob).printed
               = out

====
